---- MODULE Spec2Model ----
(***************************************************************************)
(* Model of the filler-word detector of F.A.I.R                            *)
(* (src/Backend/Models/filler_word_detection.py, class FillerDetector).    *)
(*                                                                         *)
(* A Python str is a sequence of one-character strings.  A Python value    *)
(* handed to a method is a record [type, str, n].  Numbers that Python     *)
(* holds as floats are exact rationals [num, den] here; the reported       *)
(* filler_density_percentage is held in hundredths of a percent.           *)
(***************************************************************************)
EXTENDS Integers, Sequences, FiniteSets, TLC

(***************************************************************************)
(* Characters                                                              *)
(***************************************************************************)
UpperSeq ==
    <<"A", "B", "C", "D", "E", "F", "G", "H", "I", "J", "K", "L", "M",
      "N", "O", "P", "Q", "R", "S", "T", "U", "V", "W", "X", "Y", "Z">>

LowerSeq ==
    <<"a", "b", "c", "d", "e", "f", "g", "h", "i", "j", "k", "l", "m",
      "n", "o", "p", "q", "r", "s", "t", "u", "v", "w", "x", "y", "z">>

UpperSet == {UpperSeq[i] : i \in DOMAIN UpperSeq}

LowerSet == {LowerSeq[i] : i \in DOMAIN LowerSeq}

Digits == {"0", "1", "2", "3", "4", "5", "6", "7", "8", "9"}

\* two characters outside ASCII, each written by its code point: the
\* capital I with a dot above and the combining dot above
DottedI == "U+0130"

CombiningDot == "U+0307"

LowerMap ==
    [c \in UpperSet |-> LowerSeq[CHOOSE i \in DOMAIN UpperSeq : UpperSeq[i] = c]]

\* the simple lowercase mapping of one character, which re.IGNORECASE
\* compares by: it maps the dotted capital I to i
LowerChar(c) ==
    IF c \in UpperSet THEN LowerMap[c]
    ELSE IF c = DottedI THEN "i"
    ELSE c

\* str.lower() of one character: the dotted capital I becomes two
\* characters, i and the combining dot
LowerChars(c) ==
    IF c = DottedI THEN <<"i", CombiningDot>> ELSE <<LowerChar(c)>>

RECURSIVE LowerRange(_, _, _)
\* s[lo..hi].lower()
LowerRange(s, lo, hi) ==
    IF lo > hi THEN <<>>
    ELSE IF lo = hi THEN LowerChars(s[lo])
    ELSE LET mid == (lo + hi) \div 2
         IN  LowerRange(s, lo, mid) \o LowerRange(s, mid + 1, hi)

\* str.lower()
Lower(s) == LowerRange(s, 1, Len(s))

\* the whitespace of the model: blank, tab and newline
Whitespace == {" ", "\t", "\n"}

\* the whitespace str.split() separates on, and the class \s of re
IsSpace(c) == c \in Whitespace

\* the class \w of re: letters, digits and the underscore; the combining
\* dot is not in it
WordChars == UpperSet \cup LowerSet \cup Digits \cup {"_", DottedI}

IsWordChar(c) == c \in WordChars

(***************************************************************************)
(* Python values                                                           *)
(***************************************************************************)
PyStr(s) == [type |-> "str", str |-> s, n |-> 0]

PyNone == [type |-> "NoneType", str |-> <<>>, n |-> 0]

PyInt(k) == [type |-> "int", str |-> <<>>, n |-> k]

\* a list of k elements
PyList(k) == [type |-> "list", str |-> <<>>, n |-> k]

\* bool(v): None, 0, "" and [] are false
Truthy(v) ==
    CASE v.type = "str" -> Len(v.str) > 0
      [] v.type = "NoneType" -> FALSE
      [] v.type = "int" -> v.n # 0
      [] v.type = "list" -> v.n > 0

\* isinstance(v, str)
IsStr(v) == v.type = "str"

\* the outcome of a call: a returned value or a raised exception
Return(x) == [kind |-> "return", value |-> x]

Raise(e) == [kind |-> "raise", value |-> e]

(***************************************************************************)
(* Vocabularies built by FillerDetector.__init__                           *)
(***************************************************************************)
core_fillers ==
    { <<"u", "m">>, <<"u", "h">>, <<"u", "m", "m">>, <<"u", "h", "h">>,
      <<"u", "m", "m", "m">>, <<"u", "h", "h", "h">>,
      <<"e", "r">>, <<"e", "r", "r">>, <<"e", "r", "m">>,
      <<"a", "h">>, <<"a", "h", "h">>, <<"a", "h", "h", "h">> }

common_fillers ==
    { <<"l", "i", "k", "e">>, <<"y", "o", "u", " ", "k", "n", "o", "w">>,
      <<"i", " ", "m", "e", "a", "n">>,
      <<"b", "a", "s", "i", "c", "a", "l", "l", "y">>,
      <<"a", "c", "t", "u", "a", "l", "l", "y">>,
      <<"l", "i", "t", "e", "r", "a", "l", "l", "y">> }

additional_fillers ==
    { <<"s", "o", "r", "t", " ", "o", "f">>, <<"k", "i", "n", "d", " ", "o", "f">>,
      <<"y", "o", "u", " ", "s", "e", "e">>,
      <<"o", "b", "v", "i", "o", "u", "s", "l", "y">>,
      <<"h", "o", "n", "e", "s", "t", "l", "y">>,
      <<"f", "r", "a", "n", "k", "l", "y">>,
      <<"s", "e", "r", "i", "o", "u", "s", "l", "y">>,
      <<"j", "u", "s", "t">>, <<"r", "e", "a", "l", "l", "y">>,
      <<"v", "e", "r", "y">>, <<"w", "e", "l", "l">>, <<"s", "o">>,
      <<"a", "n", "y", "w", "a", "y">>, <<"r", "i", "g", "h", "t">>,
      <<"o", "k", "a", "y">>, <<"a", "l", "r", "i", "g", "h", "t">> }

\* self.filler_phrases, in list order
filler_phrases ==
    << <<"y", "o", "u", " ", "k", "n", "o", "w">>,
       <<"i", " ", "m", "e", "a", "n">>,
       <<"s", "o", "r", "t", " ", "o", "f">>,
       <<"k", "i", "n", "d", " ", "o", "f">> >>

\* a variant of the strictness branch whose else branch is the lenient set
FillerWordsElseLenient(strictness) ==
    IF strictness = "medium"
    THEN core_fillers \cup common_fillers
    ELSE IF strictness = "strict"
         THEN core_fillers \cup common_fillers \cup additional_fillers
         ELSE core_fillers

\* a variant of the strictness branch whose medium set leaves out the core set
FillerWordsMediumNoCore(strictness) ==
    IF strictness = "lenient"
    THEN core_fillers
    ELSE IF strictness = "medium"
         THEN common_fillers
         ELSE core_fillers \cup common_fillers \cup additional_fillers

\* a variant of the strictness branch whose sets also hold a word of a phrase
FillerWordsWithPhraseWord(strictness) ==
    {<<"k", "n", "o", "w">>} \cup
        (IF strictness = "lenient"
         THEN core_fillers
         ELSE IF strictness = "medium"
              THEN core_fillers \cup common_fillers
              ELSE core_fillers \cup common_fillers \cup additional_fillers)

\* self.filler_words as chosen by the strictness branch of __init__
FillerWords(strictness) ==
    IF strictness = "lenient"
    THEN core_fillers
    ELSE IF strictness = "medium"
         THEN core_fillers \cup common_fillers
         ELSE core_fillers \cup common_fillers \cup additional_fillers

\* FillerDetector(strictness): the object after __init__
FillerDetector(strictness) ==
    [strictness |-> strictness,
     filler_words |-> FillerWords(strictness),
     filler_phrases |-> filler_phrases]

(***************************************************************************)
(* Text helpers: str.split(), re.sub(r'[^\w\s]', '', w), ' '.join          *)
(***************************************************************************)
\* the indices of a sequence, in order
Indices(seq) == [i \in 1..Len(seq) |-> i]

\* the index at which the run of characters outside seps from i on ends
RunEnd(s, i, seps) ==
    CHOOSE j \in i..Len(s) :
        /\ \A k \in i..j : s[k] \notin seps
        /\ j = Len(s) \/ s[j + 1] \in seps

\* the maximal runs of characters outside seps, in order
Runs(s, seps) ==
    LET starts == SelectSeq(Indices(s),
                            LAMBDA i : s[i] \notin seps /\ (i = 1 \/ s[i - 1] \in seps))
    IN  [k \in 1..Len(starts) |-> SubSeq(s, starts[k], RunEnd(s, starts[k], seps))]

\* a split that separates on the blank alone
SplitOnBlank(s) == Runs(s, {" "})

\* s.split(): the maximal runs of non-whitespace characters, in order
Split(s) == Runs(s, Whitespace)

RECURSIVE JoinRange(_, _, _)
\* ' '.join(words[lo..hi])
JoinRange(words, lo, hi) ==
    IF lo > hi THEN <<>>
    ELSE IF lo = hi THEN words[lo]
    ELSE LET mid == (lo + hi) \div 2
         IN  JoinRange(words, lo, mid) \o <<" ">> \o JoinRange(words, mid + 1, hi)

\* ' '.join(words)
Join(words) == JoinRange(words, 1, Len(words))

\* a cleaning step that only lowercases
CleanWordKeepPunct(word) == Lower(word)

\* re.sub(r'[^\w\s]', '', word).lower()
CleanWord(word) ==
    Lower(SelectSeq(word, LAMBDA c : IsWordChar(c) \/ IsSpace(c)))

(***************************************************************************)
(* The pattern r'\b' + re.escape(phrase) + r'\b' under re.IGNORECASE       *)
(***************************************************************************)
\* \b before index i of s (i in 1..Len(s)+1)
WordBoundary(s, i) ==
    (i > 1 /\ IsWordChar(s[i - 1])) # (i <= Len(s) /\ IsWordChar(s[i]))

\* the literal characters of the phrase match s from index p, ignoring case
LiteralAt(s, p, phrase) ==
    /\ p + Len(phrase) - 1 <= Len(s)
    /\ \A k \in 1..Len(phrase) : LowerChar(s[p + k - 1]) = LowerChar(phrase[k])

\* the whole pattern matches s from index p
MatchAt(s, p, phrase) ==
    /\ LiteralAt(s, p, phrase)
    /\ WordBoundary(s, p)
    /\ WordBoundary(s, p + Len(phrase))

RECURSIVE LeftmostFrom(_, _, _, _)
\* of the candidate starts cand[k..], those the left-to-right scan takes:
\* a candidate is taken when it does not start before index from
LeftmostFrom(cand, k, from, len) ==
    IF k > Len(cand) THEN <<>>
    ELSE IF cand[k] >= from
         THEN <<cand[k]>> \o LeftmostFrom(cand, k + 1, cand[k] + len, len)
         ELSE LeftmostFrom(cand, k + 1, from, len)

\* re.finditer(pattern, s, re.IGNORECASE): the starts (1-based) of the
\* non-overlapping matches, leftmost first
FindIter(s, phrase) ==
    LeftmostFrom(SelectSeq(Indices(s), LAMBDA p : MatchAt(s, p, phrase)),
                 1, 1, Len(phrase))

RECURSIVE SubFrom(_, _, _, _, _)
\* s from index from on, with the matches starts[k..] replaced
SubFrom(s, phrase, starts, k, from) ==
    IF k > Len(starts) THEN SubSeq(s, from, Len(s))
    ELSE SubSeq(s, from, starts[k] - 1)
         \o <<"*", "*">> \o phrase \o <<"*", "*">>
         \o SubFrom(s, phrase, starts, k + 1, starts[k] + Len(phrase))

\* re.sub(pattern, "**" + phrase + "**", s, flags=re.IGNORECASE)
Sub(s, phrase) == SubFrom(s, phrase, FindIter(s, phrase), 1, 1)

(***************************************************************************)
(* Exact rationals for the float arithmetic of the score                   *)
(***************************************************************************)
RECURSIVE Gcd(_, _)
Gcd(a, b) == IF b = 0 THEN a ELSE Gcd(b, a % b)

\* the rational n/d (d > 0, n >= 0) in lowest terms
Rat(n, d) == LET g == Gcd(n, d) IN [num |-> n \div g, den |-> d \div g]

\* round(x, 2) in hundredths, ties to the even hundredth
Round2(x) ==
    LET n == 100 * x.num
        q == n \div x.den
        r == n % x.den
    IN  IF 2 * r < x.den THEN q
        ELSE IF 2 * r > x.den THEN q + 1
        ELSE IF q % 2 = 0 THEN q ELSE q + 1

\* a number of the score field: an int, or a float held exactly
PyNum(n, d, isfloat) == [num |-> Rat(n, d).num, den |-> Rat(n, d).den, float |-> isfloat]

(***************************************************************************)
(* FillerDetector._detect_single_fillers                                   *)
(***************************************************************************)
DetectSingleFillers(self, words) ==
    LET hits == SelectSeq(Indices(words),
                          LAMBDA i : CleanWord(words[i]) \in self.filler_words)
    IN  [k \in 1..Len(hits) |->
            [word |-> CleanWord(words[hits[k]]),
             position |-> hits[k] - 1, type |-> "single"]]

(***************************************************************************)
(* FillerDetector._detect_phrase_fillers                                   *)
(***************************************************************************)
PhraseOccurrences(phrase, starts) ==
    [k \in 1..Len(starts) |->
        [word |-> phrase, position |-> starts[k] - 1, type |-> "phrase"]]

RECURSIVE DetectPhrasesFrom(_, _, _)
\* the loop over self.filler_phrases from list index j on
DetectPhrasesFrom(self, text, j) ==
    IF j > Len(self.filler_phrases) THEN <<>>
    ELSE PhraseOccurrences(self.filler_phrases[j],
                           FindIter(text, self.filler_phrases[j]))
         \o DetectPhrasesFrom(self, text, j + 1)

DetectPhraseFillers(self, text) == DetectPhrasesFrom(self, text, 1)

(***************************************************************************)
(* FillerDetector._categorize_fillers                                      *)
(***************************************************************************)
hesitations ==
    { <<"u", "m">>, <<"u", "h">>, <<"e", "r">>, <<"a", "h">>, <<"u", "m", "m">>,
      <<"u", "h", "h">>, <<"e", "r", "r">>, <<"e", "r", "m">> }

discourse ==
    { <<"l", "i", "k", "e">>, <<"y", "o", "u", " ", "k", "n", "o", "w">>,
      <<"i", " ", "m", "e", "a", "n">>,
      <<"b", "a", "s", "i", "c", "a", "l", "l", "y">>,
      <<"a", "c", "t", "u", "a", "l", "l", "y">>,
      <<"l", "i", "t", "e", "r", "a", "l", "l", "y">>,
      <<"s", "o", "r", "t", " ", "o", "f">>, <<"k", "i", "n", "d", " ", "o", "f">> }

intensifiers ==
    { <<"r", "e", "a", "l", "l", "y">>, <<"v", "e", "r", "y">>,
      <<"j", "u", "s", "t">>, <<"s", "o">> }

apologetic ==
    { <<"s", "o", "r", "r", "y">>, <<"e", "x", "c", "u", "s", "e", " ", "m", "e">> }

CategoryNames == {"hesitations", "discourse_markers", "intensifiers", "apologetic"}

\* an if/elif chain whose last branch takes every remaining term
CategoryOfElseApologetic(word) ==
    IF word \in hesitations THEN "hesitations"
    ELSE IF word \in discourse THEN "discourse_markers"
    ELSE IF word \in intensifiers THEN "intensifiers"
    ELSE "apologetic"

\* the branch of the if/elif chain a term takes ("none": no branch)
CategoryOf(word) ==
    IF word \in hesitations THEN "hesitations"
    ELSE IF word \in discourse THEN "discourse_markers"
    ELSE IF word \in intensifiers THEN "intensifiers"
    ELSE IF word \in apologetic THEN "apologetic"
    ELSE "none"

CategorizeFillers(fillers) ==
    [c \in CategoryNames |->
        Cardinality({k \in 1..Len(fillers) : CategoryOf(fillers[k].word) = c})]

(***************************************************************************)
(* Counter(...).most_common() as a sequence of <<term, count>>             *)
(***************************************************************************)
CountOf(fillers, word) ==
    Cardinality({k \in 1..Len(fillers) : fillers[k].word = word})

\* the terms in order of first occurrence
FirstSeen(fillers) ==
    LET first == SelectSeq(Indices(fillers),
                           LAMBDA k : \A j \in 1..(k - 1) : fillers[j].word # fillers[k].word)
    IN  [k \in 1..Len(first) |-> fillers[first[k]].word]

\* descending count, ties in order of first occurrence
MostCommon(fillers) ==
    LET terms == FirstSeen(fillers)
        rank(k) == Cardinality({j \in 1..Len(terms) :
                        \/ CountOf(fillers, terms[j]) > CountOf(fillers, terms[k])
                        \/ /\ CountOf(fillers, terms[j]) = CountOf(fillers, terms[k])
                           /\ j < k})
    IN  [r \in 1..Len(terms) |->
            LET k == CHOOSE k \in 1..Len(terms) : rank(k) = r - 1
            IN  <<terms[k], CountOf(fillers, terms[k])>>]

(***************************************************************************)
(* FillerDetector._calculate_filler_score                                  *)
(***************************************************************************)
\* the step function with every <= read as <
CalculateFillerScoreStrictLess(d) ==
    IF d.num < 2 * d.den THEN PyNum(100, 1, FALSE)
    ELSE IF d.num < 5 * d.den THEN PyNum(90, 1, FALSE)
    ELSE IF d.num < 8 * d.den THEN PyNum(80, 1, FALSE)
    ELSE IF d.num < 12 * d.den THEN PyNum(70, 1, FALSE)
    ELSE IF d.num < 15 * d.den THEN PyNum(60, 1, FALSE)
    ELSE IF d.num < 20 * d.den THEN PyNum(50, 1, FALSE)
    ELSE IF d.num < 25 * d.den THEN PyNum(40, 1, FALSE)
    ELSE IF d.num < 30 * d.den THEN PyNum(30, 1, FALSE)
    ELSE IF 90 * d.den - d.num > 40 * d.den
         THEN PyNum(90 * d.den - d.num, 2 * d.den, TRUE)
         ELSE PyNum(20, 1, FALSE)

\* d is the density as a rational; 30 - (d - 30) * 0.5 = (90 - d) / 2 is a
\* float, and max(20, x) gives the int 20 unless x > 20
CalculateFillerScore(d) ==
    IF d.num <= 2 * d.den THEN PyNum(100, 1, FALSE)
    ELSE IF d.num <= 5 * d.den THEN PyNum(90, 1, FALSE)
    ELSE IF d.num <= 8 * d.den THEN PyNum(80, 1, FALSE)
    ELSE IF d.num <= 12 * d.den THEN PyNum(70, 1, FALSE)
    ELSE IF d.num <= 15 * d.den THEN PyNum(60, 1, FALSE)
    ELSE IF d.num <= 20 * d.den THEN PyNum(50, 1, FALSE)
    ELSE IF d.num <= 25 * d.den THEN PyNum(40, 1, FALSE)
    ELSE IF d.num <= 30 * d.den THEN PyNum(30, 1, FALSE)
    ELSE IF 90 * d.den - d.num > 40 * d.den
         THEN PyNum(90 * d.den - d.num, 2 * d.den, TRUE)
         ELSE PyNum(20, 1, FALSE)

(***************************************************************************)
(* FillerDetector._empty_result and FillerDetector.detect_fillers          *)
(***************************************************************************)
\* an empty dict
EmptyDict == [k \in {} |-> 0]

EmptyResult ==
    [total_fillers |-> 0,
     total_words |-> 0,
     filler_density_percentage |-> 0,
     fillers_list |-> <<>>,
     filler_frequency |-> <<>>,
     categories |-> EmptyDict,
     score |-> PyNum(100, 1, FALSE)]

\* lines 66 and 75-95 of detect_fillers: the result dict built from the
\* locals words, single_fillers and phrase_fillers
BuildResult(words, single_fillers, phrase_fillers) ==
    LET total_words == Len(words)
        all_fillers == single_fillers \o phrase_fillers
        total_fillers == Len(all_fillers)
        filler_density == IF total_words > 0
                          THEN Rat(total_fillers * 100, total_words)
                          ELSE Rat(0, 1)
    IN  [total_fillers |-> total_fillers,
         total_words |-> total_words,
         filler_density_percentage |-> Round2(filler_density),
         fillers_list |-> all_fillers,
         filler_frequency |-> MostCommon(all_fillers),
         categories |-> CategorizeFillers(all_fillers),
         score |-> CalculateFillerScore(filler_density)]

\* the body of detect_fillers after its guard, on the characters of a str
AnalyzeText(self, text) ==
    LET text_lower == Lower(text)
        words == Split(text_lower)
    IN  BuildResult(words,
                    DetectSingleFillers(self, words),
                    DetectPhraseFillers(self, text_lower))

\* detect_fillers whose guard is "if not text" alone: text.lower() then
\* raises on a value that is not a str
DetectFillersNoTypeCheck(self, text) ==
    IF ~Truthy(text) THEN Return(EmptyResult)
    ELSE IF ~IsStr(text) THEN Raise("AttributeError")
    ELSE Return(AnalyzeText(self, text.str))

DetectFillers(self, text) ==
    IF ~Truthy(text) \/ ~IsStr(text)
    THEN Return(EmptyResult)
    ELSE Return(AnalyzeText(self, text.str))

(***************************************************************************)
(* FillerDetector.highlight_fillers                                        *)
(***************************************************************************)
\* sorted(fillers, key=position, reverse=True): ties keep their order
SortedByPositionDesc(fillers) ==
    LET rank(k) == Cardinality({j \in 1..Len(fillers) :
                        \/ fillers[j].position > fillers[k].position
                        \/ /\ fillers[j].position = fillers[k].position
                           /\ j < k})
    IN  [r \in 1..Len(fillers) |->
            fillers[CHOOSE k \in 1..Len(fillers) : rank(k) = r - 1]]

RECURSIVE MarkSingles(_, _, _)
\* the loop over fillers_sorted from list index k on
MarkSingles(words, fillers_sorted, k) ==
    IF k > Len(fillers_sorted) THEN words
    ELSE LET filler == fillers_sorted[k]
             pos == filler.position
         IN  IF filler.type = "single" /\ 0 <= pos /\ pos < Len(words)
             THEN MarkSingles(
                      [words EXCEPT ![pos + 1] = <<"*", "*">> \o @ \o <<"*", "*">>],
                      fillers_sorted, k + 1)
             ELSE MarkSingles(words, fillers_sorted, k + 1)

RECURSIVE SubPhrases(_, _, _)
\* the loop of re.sub over self.filler_phrases from list index j on
SubPhrases(self, highlighted, j) ==
    IF j > Len(self.filler_phrases) THEN highlighted
    ELSE SubPhrases(self, Sub(highlighted, self.filler_phrases[j]), j + 1)

\* a str is returned as its characters; text.split() raises on a value
\* that is not a str
HighlightFillers(self, text) ==
    IF ~Truthy(text) THEN Return(<<>>)
    ELSE LET result == DetectFillers(self, text)
         IN  IF result.kind = "raise" THEN result
             ELSE IF ~IsStr(text) THEN Raise("AttributeError")
             ELSE LET fillers_sorted == SortedByPositionDesc(result.value.fillers_list)
                      words == MarkSingles(Split(text.str), fillers_sorted, 1)
                  IN  Return(SubPhrases(self, Join(words), 1))

(***************************************************************************)
(* Inputs                                                                  *)
(***************************************************************************)
\* a text is the concatenation of at most MaxPieces pieces
MaxPieces == 3

\* a padded text has at most MaxFillers words "um" ...
MaxFillers == 3

\* ... followed by at most MaxPad words "a"
MaxPad == 49

\* the levels the driver loop goes through, and after them a value that
\* is none of the three named levels
Levels == <<"lenient", "medium", "strict", "MEDIUM">>

Strictnesses == {Levels[i] : i \in DOMAIN Levels}

Pieces ==
    { <<"U", "m", ",">>, <<"s", "o">>, <<" ">>, <<"\t">>,
      <<"Y", "o", "u", " ", "k", "n", "o", "w">>,
      <<"l", "e", "d", "g", "e">>, <<DottedI>> }

RECURSIVE PieceTexts(_)
\* the concatenations of at most n pieces
PieceTexts(n) ==
    IF n = 0 THEN {<<>>}
    ELSE LET shorter == PieceTexts(n - 1)
         IN  shorter \cup {t \o p : t \in shorter, p \in Pieces}

\* j words "um" followed by k words "a", separated by single blanks
Padded(j, k) ==
    Join([i \in 1..(j + k) |-> IF i <= j THEN <<"u", "m">> ELSE <<"a">>])

PaddedTexts == {Padded(j, k) : j \in 0..MaxFillers, k \in 0..MaxPad}

\* the end-to-end example of the specification
Sentence ==
    <<"U", "m", ",", " ", "s", "o", ",", " ", "l", "i", "k", "e", ",", " ",
      "I", " ", "t", "h", "i", "n", "k", " ", "A", "I", " ", "i", "s", ",", " ",
      "u", "h", ",", " ", "r", "e", "a", "l", "l", "y", " ",
      "i", "n", "t", "e", "r", "e", "s", "t", "i", "n", "g", ".">>

\* a text with terms of three categories and terms of none of them
Mixed ==
    <<"W", "e", "l", "l", ",", " ", "u", "m", ",", " ", "s", "o", " ",
      "a", "h", "h", ",", " ", "l", "i", "k", "e", " ",
      "y", "o", "u", " ", "k", "n", "o", "w", ".", " ", "O", "k", "a", "y">>

Texts == PieceTexts(MaxPieces) \cup PaddedTexts \cup {Sentence, Mixed}

\* values that are not a str: None, 0, 5, [] and a list of one element
NonText == {PyNone, PyInt(0), PyInt(5), PyList(0), PyList(1)}

Inputs == {PyStr(t) : t \in Texts} \cup NonText

(***************************************************************************)
(* State                                                                   *)
(***************************************************************************)
VARIABLES
    detector,     \* the FillerDetector objects the driver loop has built, one
                  \* per level gone through, in the order of Levels
    text,         \* the value the callers pass
    result,       \* the outcome of detect_fillers(text) of each of them
    highlighted,  \* the outcome of highlight_fillers(text) by the detector
                  \* last built, and of highlight_fillers on what it returned
    shared,       \* the module-level filler_detector all requests use
    calls,        \* the frame of the call each concurrent caller makes on it
    interleaved   \* a step was taken while another caller was inside a call

vars == <<detector, text, result, highlighted, shared, calls, interleaved>>

\* the state of the concurrent callers
conc == <<shared, calls, interleaved>>

\* the state of the driver loop
driver == <<detector, text, result, highlighted>>

NotCalled == [kind |-> "none", value |-> <<>>]

Init ==
    /\ detector = <<>>
    /\ text \in Inputs
    /\ result = <<>>
    /\ highlighted = [by |-> "nobody", once |-> NotCalled, twice |-> NotCalled]
    /\ shared = <<>>
    /\ calls = <<>>
    /\ interleaved = FALSE

\* one pass of the driver loop: detector = FillerDetector(strictness) for
\* the next level, then result = detector.detect_fillers(text)
Analyze ==
    /\ Len(detector) < Len(Levels)
    /\ LET d == FillerDetector(Levels[Len(detector) + 1])
       IN  /\ detector' = Append(detector, d)
           /\ result' = Append(result, DetectFillers(d, text))
    /\ UNCHANGED <<text, highlighted>>
    /\ UNCHANGED conc

\* detector.highlight_fillers(text), by the detector last built
Highlight ==
    /\ Len(detector) > 0
    /\ highlighted.once = NotCalled
    /\ highlighted' = [by |-> detector[Len(detector)].strictness,
                       once |-> HighlightFillers(detector[Len(detector)], text),
                       twice |-> NotCalled]
    /\ UNCHANGED <<detector, text, result>>
    /\ UNCHANGED conc

\* highlight_fillers, by the same detector, of the str its first call returned
HighlightAgain ==
    /\ highlighted.once.kind = "return"
    /\ highlighted.twice = NotCalled
    /\ \E i \in 1..Len(detector) :
           /\ detector[i].strictness = highlighted.by
           /\ highlighted' =
                  [highlighted EXCEPT
                      !.twice = HighlightFillers(detector[i],
                                                 PyStr(highlighted.once.value))]
    /\ UNCHANGED <<detector, text, result>>
    /\ UNCHANGED conc

Next ==
    \/ Analyze
    \/ Highlight
    \/ HighlightAgain

Spec == Init /\ [][Next]_vars

(***************************************************************************)
(* Concurrent callers of the one shared filler_detector of main.py         *)
(***************************************************************************)
\* the number of callers
NumCallers == 2

Callers == 1..NumCallers

\* the values the callers pass
ConcInputs ==
    { PyStr(<<"U", "m", ",", " ", "Y", "o", "u", " ", "k", "n", "o", "w">>),
      PyStr(<<"l", "i", "k", "e", " ", "s", "o">>),
      PyStr(<<>>),
      PyInt(5) }

Methods == {"detect_fillers", "highlight_fillers"}

\* a value no local holds yet
Unset == <<>>

\* the frame of a call before its first step: highlight_fillers starts at
\* its own guard, detect_fillers at the guard of line 61
NewCall(method, value) ==
    [method |-> method,
     text |-> value,
     pc |-> IF method = "highlight_fillers" THEN "start" ELSE "guard",
     text_lower |-> Unset,
     words |-> Unset,
     single_fillers |-> Unset,
     phrase_fillers |-> Unset,
     result |-> Unset,
     highlighted |-> Unset,
     ret |-> NotCalled]

\* a caller is inside a call: it has taken a step and has not returned
Inside(f) == f.pc # "done" /\ f # NewCall(f.method, f.text)

\* a caller has begun its call, returned or not
Begun(f) == f # NewCall(f.method, f.text)

\* the step of caller c interleaves when another caller is inside a call
Interleaves(c) ==
    interleaved' = (interleaved \/ \E o \in Callers \ {c} : Inside(calls[o]))

\* the shared object after the loop over self.filler_phrases, which reads
\* the list and changes nothing, when the loop consumes the list instead
AfterPhraseLoopConsumed(self) == [self EXCEPT !.filler_phrases = <<>>]

\* the shared object after the loop over self.filler_phrases (lines
\* 118-128): the loop reads the list and assigns no attribute of self
AfterPhraseLoop(self) == self

ConcInit ==
    /\ shared = FillerDetector("medium")
    /\ calls \in [Callers -> {NewCall(m, v) : m \in Methods, v \in ConcInputs}]
    /\ interleaved = FALSE
    /\ detector = <<>>
    /\ text = PyNone
    /\ result = <<>>
    /\ highlighted = [by |-> "nobody", once |-> NotCalled, twice |-> NotCalled]

\* where a call goes on once detect_fillers has its result: detect_fillers
\* returns it, highlight_fillers goes on to line 211
AfterDetect(f, r) ==
    IF f.method = "detect_fillers"
    THEN [f EXCEPT !.result = r, !.ret = Return(r), !.pc = "done"]
    ELSE [f EXCEPT !.result = r, !.pc = "mark"]

\* highlight_fillers, lines 204-207: return "" for a false value, else
\* call self.detect_fillers(text)
HStart(c) ==
    /\ calls[c].pc = "start"
    /\ LET f == calls[c]
       IN  calls' = [calls EXCEPT ![c] =
                        IF ~Truthy(f.text)
                        THEN [f EXCEPT !.ret = Return(<<>>), !.pc = "done"]
                        ELSE [f EXCEPT !.pc = "guard"]]
    /\ Interleaves(c)
    /\ UNCHANGED shared
    /\ UNCHANGED driver

\* detect_fillers, lines 61-62
DGuard(c) ==
    /\ calls[c].pc = "guard"
    /\ LET f == calls[c]
       IN  calls' = [calls EXCEPT ![c] =
                        IF ~Truthy(f.text) \/ ~IsStr(f.text)
                        THEN AfterDetect(f, EmptyResult)
                        ELSE [f EXCEPT !.pc = "lower"]]
    /\ Interleaves(c)
    /\ UNCHANGED shared
    /\ UNCHANGED driver

\* detect_fillers, lines 64-65
DLower(c) ==
    /\ calls[c].pc = "lower"
    /\ LET f == calls[c]
       IN  calls' = [calls EXCEPT ![c] =
                        [f EXCEPT !.text_lower = Lower(f.text.str),
                                  !.words = Split(Lower(f.text.str)),
                                  !.pc = "singles"]]
    /\ Interleaves(c)
    /\ UNCHANGED shared
    /\ UNCHANGED driver

\* detect_fillers, line 69: reads self.filler_words
DSingles(c) ==
    /\ calls[c].pc = "singles"
    /\ LET f == calls[c]
       IN  calls' = [calls EXCEPT ![c] =
                        [f EXCEPT !.single_fillers = DetectSingleFillers(shared, f.words),
                                  !.pc = "phrases"]]
    /\ Interleaves(c)
    /\ UNCHANGED shared
    /\ UNCHANGED driver

\* detect_fillers, line 72: reads self.filler_phrases
DPhrases(c) ==
    /\ calls[c].pc = "phrases"
    /\ LET f == calls[c]
       IN  calls' = [calls EXCEPT ![c] =
                        [f EXCEPT !.phrase_fillers = DetectPhraseFillers(shared, f.text_lower),
                                  !.pc = "finish"]]
    /\ shared' = AfterPhraseLoop(shared)
    /\ Interleaves(c)
    /\ UNCHANGED driver

\* detect_fillers, lines 75-95
DFinish(c) ==
    /\ calls[c].pc = "finish"
    /\ LET f == calls[c]
       IN  calls' = [calls EXCEPT ![c] =
                        AfterDetect(f, BuildResult(f.words, f.single_fillers,
                                                   f.phrase_fillers))]
    /\ Interleaves(c)
    /\ UNCHANGED shared
    /\ UNCHANGED driver

\* highlight_fillers, lines 211-223: text.split() raises on a value that
\* is not a str
HMark(c) ==
    /\ calls[c].pc = "mark"
    /\ LET f == calls[c]
       IN  calls' = [calls EXCEPT ![c] =
                        IF ~IsStr(f.text)
                        THEN [f EXCEPT !.ret = Raise("AttributeError"), !.pc = "done"]
                        ELSE [f EXCEPT
                                 !.highlighted =
                                     Join(MarkSingles(Split(f.text.str),
                                              SortedByPositionDesc(f.result.fillers_list), 1)),
                                 !.pc = "sub"]]
    /\ Interleaves(c)
    /\ UNCHANGED shared
    /\ UNCHANGED driver

\* highlight_fillers, lines 226-230: reads self.filler_phrases
HSub(c) ==
    /\ calls[c].pc = "sub"
    /\ LET f == calls[c]
       IN  calls' = [calls EXCEPT ![c] =
                        [f EXCEPT !.ret = Return(SubPhrases(shared, f.highlighted, 1)),
                                  !.pc = "done"]]
    /\ shared' = AfterPhraseLoop(shared)
    /\ Interleaves(c)
    /\ UNCHANGED driver

ConcNext ==
    \E c \in Callers :
        \/ HStart(c)
        \/ DGuard(c)
        \/ DLower(c)
        \/ DSingles(c)
        \/ DPhrases(c)
        \/ DFinish(c)
        \/ HMark(c)
        \/ HSub(c)

ConcSpec == ConcInit /\ [][ConcNext]_vars

(***************************************************************************)
(* Properties                                                              *)
(***************************************************************************)
\* the index of a level in the driver loop
LevelIndex(s) == CHOOSE i \in DOMAIN Levels : Levels[i] = s

\* the analyses made so far
Done == 1..Len(result)

\* the occurrences of an analysis as (term, position, kind)
Occurrences(r) ==
    {<<r.fillers_list[k].word, r.fillers_list[k].position, r.fillers_list[k].type>> :
        k \in 1..Len(r.fillers_list)}

\* the terms of an analysis
Terms(r) == {r.fillers_list[k].word : k \in 1..Len(r.fillers_list)}

TextIsStr == text.type = "str"

\* C1: detect_fillers called with "", with None or with a value that is not
\* a str returns the zero-result (counts 0, density 0, no occurrences, empty
\* frequency and category mappings, score 100), whatever the strictness.
C1_ZeroResult ==
    (text.type # "str" \/ text.str = <<>>) =>
        \A i \in Done :
            /\ result[i].kind = "return"
            /\ result[i].value.total_fillers = 0
            /\ result[i].value.total_words = 0
            /\ result[i].value.filler_density_percentage = 0
            /\ result[i].value.fillers_list = <<>>
            /\ result[i].value.filler_frequency = <<>>
            /\ DOMAIN result[i].value.categories = {}
            /\ result[i].value.score = [num |-> 100, den |-> 1, float |-> FALSE]

\* a value that is not a str and is true has been analysed at every level
C1_Witness == text = PyInt(5) /\ Len(result) = Len(Levels)

\* C2: neither detect_fillers nor highlight_fillers raises, for a str, "",
\* None or a value that is not a str, and highlight_fillers returns "" for
\* "" and None.
C2_NoFailurePath ==
    /\ \A i \in Done : result[i].kind = "return"
    /\ highlighted.once.kind # "raise"
    /\ highlighted.twice.kind # "raise"
    /\ (highlighted.once.kind = "return" /\ (text = PyNone \/ text = PyStr(<<>>)))
           => highlighted.once.value = <<>>

\* C3: for one text the occurrences found under lenient are among those
\* found under medium, and those under medium among those under strict; so
\* are the totals ordered, and so are the single-word vocabularies.
C3_Monotone ==
    \A i, j \in Done :
           (i < j /\ j <= LevelIndex("strict")) =>
               /\ detector[i].filler_words \subseteq detector[j].filler_words
               /\ Occurrences(result[i].value) \subseteq Occurrences(result[j].value)
               /\ result[i].value.total_fillers <= result[j].value.total_fillers

\* the three named levels have analysed a text on which each finds more
C3_Witness ==
    /\ Len(result) >= 3
    /\ result[1].value.total_fillers > 0
    /\ result[1].value.total_fillers < result[2].value.total_fillers
    /\ result[2].value.total_fillers < result[3].value.total_fillers

\* C4: a detector built with a strictness that is none of the three named
\* levels has the vocabulary of strict, not that of lenient, and its
\* analysis of a text is the analysis strict makes.
C4_UnknownIsStrict ==
    \A i \in Done :
        detector[i].strictness \notin {"lenient", "medium", "strict"} =>
            /\ detector[i].filler_words = detector[LevelIndex("strict")].filler_words
            /\ detector[i].filler_words # detector[LevelIndex("lenient")].filler_words
            /\ detector[i].filler_phrases = detector[LevelIndex("strict")].filler_phrases
            /\ result[i] = result[LevelIndex("strict")]

\* the unrecognised level has analysed a text with a term only strict has
C4_Witness ==
    /\ Len(result) = Len(Levels)
    /\ <<"s", "o">> \in Terms(result[LevelIndex("MEDIUM")].value)

\* the step table of the score as the specification writes it, on a
\* density n/d: 100 up to 2, 90 up to 5, 80 up to 8, 70 up to 12, 60 up to 15,
\* 50 up to 20, 40 up to 25, 30 up to 30, else max(20, 30 - (density - 30) * 0.5)
StepTable(n, d) ==
    CASE n <= 2 * d -> Rat(100, 1)
      [] 2 * d < n /\ n <= 5 * d -> Rat(90, 1)
      [] 5 * d < n /\ n <= 8 * d -> Rat(80, 1)
      [] 8 * d < n /\ n <= 12 * d -> Rat(70, 1)
      [] 12 * d < n /\ n <= 15 * d -> Rat(60, 1)
      [] 15 * d < n /\ n <= 20 * d -> Rat(50, 1)
      [] 20 * d < n /\ n <= 25 * d -> Rat(40, 1)
      [] 25 * d < n /\ n <= 30 * d -> Rat(30, 1)
      [] 30 * d < n /\ n < 50 * d -> Rat(60 * d - (n - 30 * d), 2 * d)
      [] 50 * d <= n -> Rat(20, 1)

\* the value of a score as a rational
ScoreValue(r) == [num |-> r.score.num, den |-> r.score.den]

\* C5 as stated: the score of a result is the step table applied to the
\* filler_density_percentage that result reports (rounded to 2 decimals).
C5_ScoreOfReportedDensity ==
    \A i \in Done :
        result[i].kind = "return" =>
            ScoreValue(result[i].value)
                = StepTable(result[i].value.filler_density_percentage, 100)

\* C5 amended: the score of a result is the step table applied to the
\* density before rounding, total_fillers / total_words * 100 (0 when
\* total_words = 0), and is never below 20.
C5_ScoreOfUnroundedDensity ==
    \A i \in Done :
        result[i].kind = "return" =>
            LET r == result[i].value
                n == IF r.total_words > 0 THEN 100 * r.total_fillers ELSE 0
                d == IF r.total_words > 0 THEN r.total_words ELSE 1
            IN  /\ ScoreValue(r) = StepTable(n, d)
                /\ r.score.num >= 20 * r.score.den

\* an analysis whose density, 100/3, is above 30 and is changed by rounding
C5_Witness ==
    \E i \in Done :
        /\ result[i].value.total_fillers = 1
        /\ result[i].value.total_words = 3
        /\ result[i].value.filler_density_percentage = 3333

\* C6: the score of every result of detect_fillers is an integer in 0..100.
C6_ScoreIsInteger ==
    \A i \in Done :
        result[i].kind = "return" =>
            /\ result[i].value.score.den = 1
            /\ 0 <= result[i].value.score.num
            /\ result[i].value.score.num <= 100

\* the number of whitespace-separated tokens of a str: the characters that
\* are not whitespace and end the text or stand before whitespace
TokenCount(t) ==
    Cardinality({k \in 1..Len(t) :
                    /\ ~IsSpace(t[k])
                    /\ k = Len(t) \/ IsSpace(t[k + 1])})

\* C7: for a str, total_words is the number of whitespace-separated tokens
\* of the lowercased text, total_fillers the number of single plus phrase
\* occurrences, and filler_density_percentage is total_fillers /
\* total_words * 100 rounded to 2 decimals, or 0 when total_words = 0.
C7_Counts ==
    TextIsStr =>
        \A i \in Done :
            LET r == result[i].value
                singles == {k \in 1..Len(r.fillers_list) : r.fillers_list[k].type = "single"}
                phrases == {k \in 1..Len(r.fillers_list) : r.fillers_list[k].type = "phrase"}
                h == r.filler_density_percentage
                e == h * r.total_words - 10000 * r.total_fillers
            IN  /\ r.total_words = TokenCount(Lower(text.str))
                /\ r.total_fillers = Cardinality(singles) + Cardinality(phrases)
                /\ r.total_words > 0 => (2 * e <= r.total_words /\ -2 * e <= r.total_words)
                /\ r.total_words = 0 => h = 0

\* a text whose tokens a tab separates, with a filler, has been analysed
C7_Witness ==
    /\ TextIsStr
    /\ \E k \in 1..Len(text.str) : text.str[k] = "\t"
    /\ \E i \in Done :
           /\ result[i].value.total_words >= 2
           /\ result[i].value.total_fillers >= 1

\* C8: a phrase occurrence is recorded only where the phrase stands in the
\* text, in any letter case, with no word character right before or right
\* after it; a phrase that is only the prefix or suffix of longer words
\* yields no occurrence.
C8_PhraseWholeWords ==
    TextIsStr =>
        \A i \in Done :
            \A k \in 1..Len(result[i].value.fillers_list) :
                LET o == result[i].value.fillers_list[k]
                    t == text.str
                IN  o.type = "phrase" =>
                        \E p \in 1..Len(t) :
                            LET q == p + Len(o.word)
                            IN  /\ q - 1 <= Len(t)
                                /\ \A c \in 1..Len(o.word) :
                                       LowerChar(t[p + c - 1]) = o.word[c]
                                /\ p = 1 \/ ~IsWordChar(t[p - 1])
                                /\ q > Len(t) \/ ~IsWordChar(t[q])

\* what does hold: the recorded position is one of the lowercased text, and
\* there the phrase has no word character right before or right after it
PhraseWholeWordsInLowercasedText ==
    TextIsStr =>
        \A i \in Done :
            \A k \in 1..Len(result[i].value.fillers_list) :
                LET o == result[i].value.fillers_list[k]
                    t == Lower(text.str)
                    p == o.position + 1
                    q == p + Len(o.word)
                IN  o.type = "phrase" =>
                        /\ q - 1 <= Len(t)
                        /\ SubSeq(t, p, q - 1) = o.word
                        /\ p = 1 \/ ~IsWordChar(t[p - 1])
                        /\ q > Len(t) \/ ~IsWordChar(t[q])

\* what C9 says of an analysis r of the example sentence by medium, with
\* the number of words it names
ExampleAnalysis(r, words) ==
    /\ {<<"u", "m">>, <<"l", "i", "k", "e">>, <<"u", "h">>} \subseteq Terms(r)
    /\ <<"r", "e", "a", "l", "l", "y">> \in Terms(r)
           <=> <<"r", "e", "a", "l", "l", "y">>
                   \in detector[LevelIndex("medium")].filler_words
    /\ r.total_words = words
    /\ LET e == r.filler_density_percentage * words - 10000 * r.total_fillers
       IN  2 * e <= words /\ -2 * e <= words

\* C9 as stated: on "Um, so, like, I think AI is, uh, really interesting."
\* medium reports um, like and uh (really only if medium has it),
\* total_words = 11 and the density total_fillers / 11 * 100 rounded.
C9_ExampleElevenWords ==
    (text = PyStr(Sentence) /\ LevelIndex("medium") \in Done) =>
        ExampleAnalysis(result[LevelIndex("medium")].value, 11)

\* C9 amended: the same, with total_words = 10 and the density
\* total_fillers / 10 * 100 rounded, which is 30.0 for the 3 occurrences.
C9_ExampleTenWords ==
    (text = PyStr(Sentence) /\ LevelIndex("medium") \in Done) =>
        /\ ExampleAnalysis(result[LevelIndex("medium")].value, 10)
        /\ result[LevelIndex("medium")].value.total_fillers = 3
        /\ result[LevelIndex("medium")].value.filler_density_percentage = 3000

\* medium has analysed the example sentence
C9_Witness == text = PyStr(Sentence) /\ LevelIndex("medium") \in Done

\* the detector that highlighted has also analysed the text and found a filler
HighlighterFoundFiller ==
    /\ TextIsStr
    /\ highlighted.by \in Strictnesses
    /\ LevelIndex(highlighted.by) \in Done
    /\ result[LevelIndex(highlighted.by)].value.total_fillers > 0

\* C10: when detect_fillers finds a filler in a text, highlight_fillers of
\* what highlight_fillers returned for that text differs from it.
C10_NotIdempotent ==
    (HighlighterFoundFiller /\ highlighted.twice.kind = "return") =>
        highlighted.twice.value # highlighted.once.value

\* a text with a single-word and a phrase occurrence has been highlighted twice
C10_Witness ==
    /\ HighlighterFoundFiller
    /\ highlighted.twice.kind = "return"
    /\ \E o \in Occurrences(result[LevelIndex(highlighted.by)].value) : o[3] = "single"
    /\ \E o \in Occurrences(result[LevelIndex(highlighted.by)].value) : o[3] = "phrase"

\* a str without its asterisks; the texts analysed here hold none, so this
\* removes exactly the marker pairs
Unmarked(s) == SelectSeq(s, LAMBDA c : c # "*")

\* the highlighter has returned a str for a str
HighlightReturned == TextIsStr /\ highlighted.once.kind = "return"

\* the analysis highlight_fillers makes of the text: that of its detector
HighlighterAnalysis ==
    DetectFillers(FillerDetector(highlighted.by), text).value

\* the token a single-word occurrence stands at is bracketed in the output
SingleBracketed(out, o) ==
    LET words == Split(text.str)
        tokens == Split(out)
        w == words[o.position + 1]
    IN  /\ o.position + 1 <= Len(tokens)
        /\ Unmarked(tokens[o.position + 1]) = w
        /\ tokens[o.position + 1] # w

\* the output holds at least as many bracketed copies of the phrase as the
\* analysis reports occurrences of it
PhraseBracketed(out, r, phrase) ==
    LET marked == <<"*", "*">> \o phrase \o <<"*", "*">>
    IN  Cardinality({p \in 1..Len(out) :
                        /\ p + Len(marked) - 1 <= Len(out)
                        /\ SubSeq(out, p, p + Len(marked) - 1) = marked})
            >= Cardinality({k \in 1..Len(r.fillers_list) :
                               /\ r.fillers_list[k].type = "phrase"
                               /\ r.fillers_list[k].word = phrase})

\* C11: for a str, highlight_fillers without its marker pairs is the
\* whitespace-separated tokens of the input in their original letter case,
\* bracketed phrases included, and every occurrence detect_fillers reports
\* is bracketed.
C11_RerendersOriginal ==
    HighlightReturned =>
        LET out == highlighted.once.value
            r == HighlighterAnalysis
        IN  /\ Unmarked(out) = Join(Split(text.str))
            /\ \A k \in 1..Len(r.fillers_list) :
                   LET o == r.fillers_list[k]
                   IN  IF o.type = "single"
                       THEN SingleBracketed(out, o)
                       ELSE PhraseBracketed(out, r, o.word)

\* what does hold: without its marker pairs the output is the tokens of the
\* input up to letter case, and every single-word occurrence is bracketed
HighlightKeepsTokensUpToCase ==
    HighlightReturned =>
        LET out == highlighted.once.value
            r == HighlighterAnalysis
            fold(s) == [i \in 1..Len(s) |-> LowerChar(s[i])]
        IN  /\ fold(Unmarked(out)) = fold(Join(Split(text.str)))
            /\ \A k \in 1..Len(r.fillers_list) :
                   r.fillers_list[k].type = "single"
                       => SingleBracketed(out, r.fillers_list[k])

\* the first part of C11 alone: the letter case of the tokens
HighlightKeepsCase ==
    HighlightReturned =>
        Unmarked(highlighted.once.value) = Join(Split(text.str))

\* the second part of C11 alone: every reported occurrence is bracketed
HighlightBracketsAll ==
    HighlightReturned =>
        \A k \in 1..Len(HighlighterAnalysis.fillers_list) :
            LET o == HighlighterAnalysis.fillers_list[k]
            IN  IF o.type = "single"
                THEN SingleBracketed(highlighted.once.value, o)
                ELSE PhraseBracketed(highlighted.once.value, HighlighterAnalysis, o.word)

\* the fixed set of terms of a category
CategorySet(c) ==
    CASE c = "hesitations" -> hesitations
      [] c = "discourse_markers" -> discourse
      [] c = "intensifiers" -> intensifiers
      [] c = "apologetic" -> apologetic

\* the occurrences of an analysis whose term is in a set
OccurrencesIn(r, set) ==
    {k \in 1..Len(r.fillers_list) : r.fillers_list[k].word \in set}

\* C13: for a non-empty str, categories has exactly the four fixed
\* categories; the four sets are disjoint, so an occurrence is counted in at
\* most one; the count of a category is the number of occurrences whose term
\* is in its set, at every strictness; the occurrences whose term is in none
\* of the sets are in total_fillers and in no count, so the four counts sum
\* to total_fillers less those, which is <= total_fillers.
C13_Categories ==
    (TextIsStr /\ text.str # <<>>) =>
        \A i \in Done :
            LET r == result[i].value
                n == r.categories
                none == {k \in 1..Len(r.fillers_list) :
                            \A c \in CategoryNames :
                                r.fillers_list[k].word \notin CategorySet(c)}
            IN  /\ DOMAIN n = CategoryNames
                /\ Cardinality(CategoryNames) = 4
                /\ \A c, d \in CategoryNames :
                       c # d => CategorySet(c) \cap CategorySet(d) = {}
                /\ \A c \in CategoryNames :
                       n[c] = Cardinality(OccurrencesIn(r, CategorySet(c)))
                /\ n["hesitations"] + n["discourse_markers"] + n["intensifiers"]
                       + n["apologetic"] + Cardinality(none) = r.total_fillers
                /\ n["hesitations"] + n["discourse_markers"] + n["intensifiers"]
                       + n["apologetic"] <= r.total_fillers

\* an analysis with occurrences in three categories and occurrences in none
C13_Witness ==
    /\ TextIsStr
    /\ text.str # <<>>
    /\ \E i \in Done :
           LET r == result[i].value
           IN  /\ r.categories["hesitations"] > 0
               /\ r.categories["discourse_markers"] > 1
               /\ r.categories["intensifiers"] > 0
               /\ r.categories["hesitations"] + r.categories["discourse_markers"]
                      + r.categories["intensifiers"] + r.categories["apologetic"]
                      < r.total_fillers

\* the indices at which the whitespace-separated tokens of a str start
TokenStarts(s) ==
    SelectSeq(Indices(s),
              LAMBDA i : ~IsSpace(s[i]) /\ (i = 1 \/ IsSpace(s[i - 1])))

\* the characters (indices of the lowercased text) a single-word occurrence
\* covers: those of the token at its position
SingleSpan(t, o) ==
    LET from == TokenStarts(t)[o.position + 1]
    IN  from..RunEnd(t, from, Whitespace)

\* the characters a phrase occurrence covers
PhraseSpan(o) == (o.position + 1)..(o.position + Len(o.word))

\* the indices at which the runs of asterisks of a str start
MarkerStarts(s) ==
    SelectSeq(Indices(s), LAMBDA p : s[p] = "*" /\ (p = 1 \/ s[p - 1] # "*"))

\* the markers of the output are pairs of two asterisks, and what stands
\* between the two markers of a pair is one token that is a single-word
\* filler of the detector, or one phrase: no word is inside two pairs
BracketsOnce(self, out) ==
    LET m == MarkerStarts(out)
    IN  /\ Len(m) % 2 = 0
        /\ \A j \in 1..Len(m) :
               /\ m[j] + 1 <= Len(out)
               /\ out[m[j] + 1] = "*"
               /\ m[j] + 2 > Len(out) \/ out[m[j] + 2] # "*"
        /\ \A j \in 1..(Len(m) \div 2) :
               LET inside == SubSeq(out, m[2 * j - 1] + 2, m[2 * j] - 1)
               IN  \/ /\ \A c \in 1..Len(inside) : ~IsSpace(inside[c])
                      /\ CleanWord(Lower(inside)) \in self.filler_words
                   \/ \E q \in 1..Len(self.filler_phrases) :
                          inside = self.filler_phrases[q]

\* C14: for a str at every strictness, the token of a single-word
\* occurrence shares no character with a phrase occurrence, two phrase
\* occurrences share no character, total_fillers <= total_words, the density
\* is at most 100, and highlight_fillers brackets no word twice.
C14_NoTokenTwice ==
    TextIsStr =>
        /\ \A i \in Done :
               LET r == result[i].value
                   t == Lower(text.str)
                   l == r.fillers_list
               IN  /\ \A j, k \in 1..Len(l) :
                          /\ (l[j].type = "single" /\ l[k].type = "phrase")
                                 => SingleSpan(t, l[j]) \cap PhraseSpan(l[k]) = {}
                          /\ (l[j].type = "phrase" /\ l[k].type = "phrase" /\ j # k)
                                 => PhraseSpan(l[j]) \cap PhraseSpan(l[k]) = {}
                          /\ (l[j].type = "single" /\ l[k].type = "single" /\ j # k)
                                 => l[j].position # l[k].position
                   /\ r.total_fillers <= r.total_words
                   /\ r.filler_density_percentage <= 10000
        /\ highlighted.once.kind = "return"
               => BracketsOnce(FillerDetector(highlighted.by), highlighted.once.value)

\* a text in which a single-word and a phrase occurrence are found has been
\* highlighted, with at least two marker pairs
C14_Witness ==
    /\ TextIsStr
    /\ highlighted.once.kind = "return"
    /\ Len(MarkerStarts(highlighted.once.value)) >= 4
    /\ \E i \in Done :
           /\ \E k \in 1..Len(result[i].value.fillers_list) :
                  result[i].value.fillers_list[k].type = "single"
           /\ \E k \in 1..Len(result[i].value.fillers_list) :
                  result[i].value.fillers_list[k].type = "phrase"

\* what a call returns when it runs alone on the analyzer main.py builds
Alone(f) ==
    IF f.method = "detect_fillers"
    THEN DetectFillers(FillerDetector("medium"), f.text)
    ELSE HighlightFillers(FillerDetector("medium"), f.text)

\* C12: under every interleaving of the steps of detect_fillers and
\* highlight_fillers calls by several callers on the one shared analyzer,
\* each call returns what it returns when run alone on the same text, and
\* the strictness, filler_words and filler_phrases of the analyzer stay what
\* its construction made them.
C12_Independent ==
    /\ shared # <<>> => shared = FillerDetector("medium")
    /\ \A c \in DOMAIN calls :
           calls[c].pc = "done" => calls[c].ret = Alone(calls[c])

\* all callers have returned from calls whose steps interleaved, one of
\* them from highlight_fillers with a phrase it bracketed, and two of
\* them were given different texts
C12_Witness ==
    /\ DOMAIN calls = Callers
    /\ interleaved
    /\ \A c \in Callers : calls[c].pc = "done"
    /\ \E c, d \in Callers : calls[c].text # calls[d].text
    /\ \E c \in Callers :
           /\ calls[c].method = "highlight_fillers"
           /\ calls[c].ret.kind = "return"
           /\ calls[c].result # Unset
           /\ Len(calls[c].result.fillers_list) >= 2
           /\ Len(MarkerStarts(calls[c].ret.value)) >= 4

====
